---- MODULE Spec2Model ----
(***************************************************************************)
(* A model of the Puppeteer scraper of src/server.js: the orchestrator     *)
(* scrapeWithPuppeteer (one step per awaited operation), the scroll        *)
(* trigger autoScroll (one step per interval tick), and the two in-page    *)
(* extraction scripts of scrapeWorkday and scrapeGeneric, computed over a  *)
(* small DOM (a preorder list of elements with parent links).              *)
(***************************************************************************)
EXTENDS Integers, Sequences, FiniteSets, TLC

(* ---------------------------------------------------------------------- *)
(* Bounds and program constants                                            *)
(* ---------------------------------------------------------------------- *)

\* The page is built from at most MaxFrags fragments of FragmentPool.
MaxFrags == 3

\* autoScroll: `const distance = 100`
distance == 100

\* autoScroll: `totalHeight > 3000`
ScrollCap == 3000

\* acceptance filter: `title.length > 3`
MinTitleLen == 3

(* ---------------------------------------------------------------------- *)
(* Strings, as JavaScript computes on them                                 *)
(* ---------------------------------------------------------------------- *)

CharAt(s, i) == SubSeq(s, i, i)

IsWs(c) == c \in {" ", "\n", "\t"}

\* String.prototype.includes
Includes(s, sub) ==
  \E i \in 1..(Len(s) - Len(sub) + 1) : SubSeq(s, i, i + Len(sub) - 1) = sub

RECURSIVE TrimStart(_)
TrimStart(s) ==
  IF Len(s) = 0 THEN s
  ELSE IF IsWs(CharAt(s, 1)) THEN TrimStart(SubSeq(s, 2, Len(s))) ELSE s

RECURSIVE TrimEnd(_)
TrimEnd(s) ==
  IF Len(s) = 0 THEN s
  ELSE IF IsWs(CharAt(s, Len(s))) THEN TrimEnd(SubSeq(s, 1, Len(s) - 1)) ELSE s

\* String.prototype.trim
Trim(s) == TrimEnd(TrimStart(s))

\* s.replace(/\s+/g, ' '): every maximal run of whitespace becomes one space
RECURSIVE CollapseWs(_)
CollapseWs(s) ==
  IF Len(s) = 0 THEN s
  ELSE IF IsWs(CharAt(s, 1))
       THEN " " \o CollapseWs(TrimStart(s))
       ELSE CharAt(s, 1) \o CollapseWs(SubSeq(s, 2, Len(s)))

\* isWorkday without the wd5. marker
isWorkday_NoWd5(url) == Includes(url, "myworkdayjobs.com") \/ Includes(url, "wd3.")

\* isWorkday(url)
isWorkday(url) ==
  Includes(url, "myworkdayjobs.com") \/ Includes(url, "wd3.") \/ Includes(url, "wd5.")

(* ---------------------------------------------------------------------- *)
(* The DOM: a list of elements in document (preorder) order.  parent is    *)
(* the index of the parent element, 0 for a child of the body; text is the *)
(* element's own leading text node; attr maps the attributes present.      *)
(* ---------------------------------------------------------------------- *)

NoAttrs == [n \in {} |-> ""]

El(tag, parent, text, attr) ==
  [tag |-> tag, parent |-> parent, text |-> text, attr |-> attr]

HasAttr(e, n) == n \in DOMAIN e.attr

\* i is a proper descendant of j (j = 0 is the document)
RECURSIVE IsDescendant(_, _, _)
IsDescendant(dom, i, j) ==
  IF i = 0 THEN FALSE
  ELSE IF dom[i].parent = j THEN TRUE
  ELSE IsDescendant(dom, dom[i].parent, j)

\* A simple selector: tag ("*" for any) and one attribute test.
SelTag(t)               == [tag |-> t,   test |-> "none",     name |-> "",      val |-> ""]
SelHas(n)               == [tag |-> "*", test |-> "has",      name |-> n,       val |-> ""]
SelEq(t, n, v)          == [tag |-> t,   test |-> "eq",       name |-> n,       val |-> v]
SelContains(t, n, v)    == [tag |-> t,   test |-> "contains", name |-> n,       val |-> v]
SelClass(c)             == [tag |-> "*", test |-> "class",    name |-> "class", val |-> c]

\* Element.matches for one simple selector
MatchesSimple(e, s) ==
  /\ s.tag = "*" \/ e.tag = s.tag
  /\ CASE s.test = "none"     -> TRUE
       [] s.test = "has"      -> HasAttr(e, s.name)
       [] s.test = "eq"       -> HasAttr(e, s.name) /\ e.attr[s.name] = s.val
       [] s.test = "contains" -> HasAttr(e, s.name) /\ Includes(e.attr[s.name], s.val)
       [] s.test = "class"    -> /\ HasAttr(e, "class")
                                 /\ Includes(" " \o e.attr["class"] \o " ",
                                             " " \o s.val \o " ")

\* A selector is a comma list (a set) of simple selectors.
Matches(e, sel) == \E s \in sel : MatchesSimple(e, s)

Indices(dom) == [i \in 1..Len(dom) |-> i]

\* document.querySelectorAll(sel): the matching elements in document order
QuerySelectorAll(dom, sel) ==
  LET hit(i) == Matches(dom[i], sel) IN SelectSeq(Indices(dom), hit)

\* el.querySelector(sel): the first matching descendant of el, 0 for null
QuerySelector(dom, el, sel) ==
  LET hit(i) == IsDescendant(dom, i, el) /\ Matches(dom[i], sel)
      found  == SelectSeq(Indices(dom), hit)
  IN IF Len(found) = 0 THEN 0 ELSE found[1]

\* el.closest(sel): the nearest ancestor-or-self matching sel, 0 for null
RECURSIVE Closest(_, _, _)
Closest(dom, el, sel) ==
  IF el = 0 THEN 0
  ELSE IF Matches(dom[el], sel) THEN el
  ELSE Closest(dom, dom[el].parent, sel)

\* el.textContent: the text of el and of its descendants, in document order
RECURSIVE TextFrom(_, _, _)
TextFrom(dom, el, i) ==
  IF i > Len(dom) THEN ""
  ELSE (IF i = el \/ IsDescendant(dom, i, el) THEN dom[i].text ELSE "")
       \o TextFrom(dom, el, i + 1)

TextContent(dom, el) == TextFrom(dom, el, el)

\* The origin (scheme://host) of an absolute URL: what precedes its third "/"
RECURSIVE OriginFrom(_, _, _)
OriginFrom(u, i, slashes) ==
  IF i > Len(u) THEN u
  ELSE IF CharAt(u, i) = "/"
       THEN IF slashes = 2 THEN SubSeq(u, 1, i - 1)
            ELSE OriginFrom(u, i + 1, slashes + 1)
       ELSE OriginFrom(u, i + 1, slashes)

OriginOf(u) == OriginFrom(u, 1, 0)

\* HTMLAnchorElement.href: "" without the attribute, else the attribute
\* resolved against the page's URL
Href(e, pageUrl) ==
  IF ~HasAttr(e, "href") THEN ""
  ELSE IF Includes(e.attr["href"], "://") THEN e.attr["href"]
  ELSE IF Len(e.attr["href"]) > 0 /\ CharAt(e.attr["href"], 1) = "/"
       THEN OriginOf(pageUrl) \o e.attr["href"]
  ELSE pageUrl

(* ---------------------------------------------------------------------- *)
(* scrapeWorkday: the in-page extraction script                            *)
(* ---------------------------------------------------------------------- *)

UpperCase == {"A", "B", "C", "D", "E", "F", "G", "H", "I", "J", "K", "L", "M",
              "N", "O", "P", "Q", "R", "S", "T", "U", "V", "W", "X", "Y", "Z"}

LowerCase == {"a", "b", "c", "d", "e", "f", "g", "h", "i", "j", "k", "l", "m",
              "n", "o", "p", "q", "r", "s", "t", "u", "v", "w", "x", "y", "z"}

\* The character at i, "" outside the string
At(s, i) == IF i >= 1 /\ i <= Len(s) THEN SubSeq(s, i, i) ELSE ""

InClass(c, cls) ==
  CASE cls = "lower"   -> c \in LowerCase
    [] cls = "lowerws" -> c \in LowerCase \/ IsWs(c)
    [] cls = "ws"      -> IsWs(c)

\* The end (exclusive) of the longest run of cls characters starting at i
RECURSIVE RunEnd(_, _, _)
RunEnd(s, i, cls) ==
  IF i <= Len(s) /\ InClass(At(s, i), cls) THEN RunEnd(s, i + 1, cls) ELSE i

\* [A-Z][a-z]+,\s*[A-Z]{2} anchored at i: the match, "" for none
CityState(s, i) ==
  LET j == RunEnd(s, i + 1, "lower")
      k == RunEnd(s, j + 1, "ws")
  IN IF /\ At(s, i) \in UpperCase
        /\ j > i + 1
        /\ At(s, j) = ","
        /\ At(s, k) \in UpperCase
        /\ At(s, k + 1) \in UpperCase
     THEN SubSeq(s, i, k + 1) ELSE ""

\* [A-Z][a-z\s]+,\s*[A-Z][a-z\s]+ anchored at i: the match, "" for none
CityRegion(s, i) ==
  LET j == RunEnd(s, i + 1, "lowerws")
      k == RunEnd(s, j + 1, "ws")
      m == RunEnd(s, k + 1, "lowerws")
  IN IF /\ At(s, i) \in UpperCase
        /\ j > i + 1
        /\ At(s, j) = ","
        /\ At(s, k) \in UpperCase
        /\ m > k + 1
     THEN SubSeq(s, i, m - 1) ELSE ""

\* text.match(/([A-Z][a-z]+,\s*[A-Z]{2})|([A-Z][a-z\s]+,\s*[A-Z][a-z\s]+)/):
\* the leftmost match, the first alternative preferred; "" for null
RECURSIVE LocationMatchFrom(_, _)
LocationMatchFrom(s, i) ==
  IF i > Len(s) THEN ""
  ELSE IF CityState(s, i) # "" THEN CityState(s, i)
  ELSE IF CityRegion(s, i) # "" THEN CityRegion(s, i)
  ELSE LocationMatchFrom(s, i + 1)

LocationMatch(s) == LocationMatchFrom(s, 1)

\* a || b on element handles (0 is null)
OrElse(a, b) == IF a # 0 THEN a ELSE b

WorkdayStrategy1 == {SelEq("A", "data-automation-id", "jobTitle")}
WorkdayStrategy2 == {SelContains("A", "href", "/job/")}
WorkdayStrategy3 == {SelContains("A", "aria-label", "job")}
WorkdayListItems == {SelEq("LI", "role", "listitem"), SelContains("LI", "class", "css")}

\* Array.from(listItems).map(li => li.querySelector('a')).filter(a => a)
ListItemAnchors(dom) ==
  LET lis    == QuerySelectorAll(dom, WorkdayListItems)
      first  == [k \in 1..Len(lis) |-> QuerySelector(dom, lis[k], {SelTag("A")})]
      isEl(a) == a # 0
  IN SelectSeq(first, isEl)

\* The four strategies of scrapeWorkday: the job links, and (queried) the
\* strategies whose query ran
WorkdayCascade(dom) ==
  LET l1 == QuerySelectorAll(dom, WorkdayStrategy1)
      l2 == IF Len(l1) = 0 THEN QuerySelectorAll(dom, WorkdayStrategy2) ELSE l1
      l3 == IF Len(l2) = 0 THEN QuerySelectorAll(dom, WorkdayStrategy3) ELSE l2
      l4 == IF Len(l3) = 0 THEN ListItemAnchors(dom) ELSE l3
  IN [cands   |-> l4,
      queried |-> <<1>> \o (IF Len(l1) = 0 THEN <<2>> ELSE <<>>)
                        \o (IF Len(l2) = 0 THEN <<3>> ELSE <<>>)
                        \o (IF Len(l3) = 0 THEN <<4>> ELSE <<>>)]

\* title = link.textContent.trim().replace(/\s+/g, ' ').trim()
WorkdayTitle(dom, link) == Trim(CollapseWs(Trim(TextContent(dom, link))))

WorkdayLocation(dom, link) ==
  LET parent == OrElse(Closest(dom, link, {SelTag("LI")}),
                       Closest(dom, link, {SelEq("*", "role", "listitem")}))
      locationEl ==
        OrElse(QuerySelector(dom, parent, {SelContains("*", "data-automation-id", "location")}),
        OrElse(QuerySelector(dom, parent, {SelTag("DD")}),
               QuerySelector(dom, parent, {SelContains("*", "class", "location")})))
  IN IF parent = 0 THEN "Location not specified"
     ELSE IF locationEl # 0 THEN Trim(TextContent(dom, locationEl))
     ELSE IF LocationMatch(TextContent(dom, parent)) # ""
          THEN LocationMatch(TextContent(dom, parent))
     ELSE "Location not specified"

\* WorkdayAccepts without the url test
WorkdayAccepts_NoUrl(title, url) == title # "" /\ Len(title) > MinTitleLen

\* if (title && url && title.length > 3)
WorkdayAccepts(title, url) == title # "" /\ url # "" /\ Len(title) > MinTitleLen

\* WorkdayId numbering the accepted records instead: jobElements.length + 1
WorkdayId_ByAccepted(index, jobElements) == Len(jobElements) + 1

\* id: index + 1, index the forEach index (0-based) of the link
WorkdayId(index, jobElements) == index + 1

\* jobLinks.forEach((link, index) => ...), from the k-th link on
RECURSIVE WorkdayForEach(_, _, _, _, _)
WorkdayForEach(dom, pageUrl, links, k, jobElements) ==
  IF k > Len(links) THEN jobElements
  ELSE LET title == WorkdayTitle(dom, links[k])
           url   == Href(dom[links[k]], pageUrl)
       IN WorkdayForEach(dom, pageUrl, links, k + 1,
            IF WorkdayAccepts(title, url)
            THEN Append(jobElements,
                        [id       |-> WorkdayId(k - 1, jobElements),
                         title    |-> title,
                         location |-> WorkdayLocation(dom, links[k]),
                         url      |-> url])
            ELSE jobElements)

\* The script of scrapeWorkday's page.evaluate
WorkdayEvaluate(dom, pageUrl) ==
  LET c == WorkdayCascade(dom)
  IN [cands   |-> c.cands,
      queried |-> c.queried,
      jobs    |-> WorkdayForEach(dom, pageUrl, c.cands, 1, <<>>)]

(* ---------------------------------------------------------------------- *)
(* scrapeGeneric: the in-page extraction script                            *)
(* ---------------------------------------------------------------------- *)

\* const selectors = [...]
GenericSelectors ==
  << {SelContains("A", "href", "/job")},
     {SelContains("A", "href", "/position")},
     {SelContains("A", "href", "/career")},
     {SelHas("data-job-id")},
     {SelClass("job-listing")},
     {SelClass("job-item")},
     {SelClass("opening")},
     {SelContains("*", "class", "job")},
     {SelContains("*", "class", "position")},
     {SelContains("*", "class", "career")} >>

\* const titleSelectors = ['h2', 'h3', 'h4', '.title', '[class*="title"]', 'a']
TitleSelectors ==
  << {SelTag("H2")}, {SelTag("H3")}, {SelTag("H4")}, {SelClass("title")},
     {SelContains("*", "class", "title")}, {SelTag("A")} >>

\* const locationSelectors = ['.location', '[class*="location"]', '[class*="office"]', '[data-location]']
LocationSelectors ==
  << {SelClass("location")}, {SelContains("*", "class", "location")},
     {SelContains("*", "class", "office")}, {SelHas("data-location")} >>

\* GenericCascadeFrom without the break: every selector is queried and the
\* last one that matched wins
RECURSIVE GenericCascade_NoBreak(_, _, _)
GenericCascade_NoBreak(dom, k, queried) ==
  IF k > Len(GenericSelectors) THEN [cands |-> <<>>, queried |-> queried]
  ELSE LET elements == QuerySelectorAll(dom, GenericSelectors[k])
           rest     == GenericCascade_NoBreak(dom, k + 1, Append(queried, k))
       IN IF Len(rest.cands) > 0 \/ Len(elements) = 0 THEN rest
          ELSE [cands |-> elements, queried |-> rest.queried]

\* for (const selector of selectors) { ...; if (elements.length > 0) { ...; break; } }
RECURSIVE GenericCascadeFrom(_, _, _)
GenericCascadeFrom(dom, k, queried) ==
  IF k > Len(GenericSelectors) THEN [cands |-> <<>>, queried |-> queried]
  ELSE LET elements == QuerySelectorAll(dom, GenericSelectors[k])
       IN IF Len(elements) > 0
          THEN [cands |-> elements, queried |-> Append(queried, k)]
          ELSE GenericCascadeFrom(dom, k + 1, Append(queried, k))

GenericCascade(dom) == GenericCascadeFrom(dom, 1, <<>>)

\* for (const sel of sels): the trimmed text of the first selector whose
\* first matching descendant has non-empty trimmed text; dflt without one
RECURSIVE FirstText(_, _, _, _, _)
FirstText(dom, el, sels, k, dflt) ==
  IF k > Len(sels) THEN dflt
  ELSE LET found == QuerySelector(dom, el, sels[k])
       IN IF found # 0 /\ Trim(TextContent(dom, found)) # ""
          THEN Trim(TextContent(dom, found))
          ELSE FirstText(dom, el, sels, k + 1, dflt)

GenericTitle(dom, el) ==
  LET title == FirstText(dom, el, TitleSelectors, 1, "")
  IN IF title = "" /\ dom[el].tag = "A" /\ Trim(TextContent(dom, el)) # ""
     THEN Trim(TextContent(dom, el))
     ELSE title

GenericLocation(dom, el) ==
  FirstText(dom, el, LocationSelectors, 1, "Location not specified")

GenericJobUrl(dom, el, pageUrl) ==
  IF dom[el].tag = "A" THEN Href(dom[el], pageUrl)
  ELSE LET link == QuerySelector(dom, el, {SelTag("A")})
       IN IF link # 0 THEN Href(dom[link], pageUrl) ELSE ""

\* if (title && title.length > 3)
GenericAccepts(title) == title # "" /\ Len(title) > MinTitleLen

\* id: index + 1
GenericId(index, jobElements) == index + 1

\* foundElements.forEach((el, index) => ...), from the k-th element on
RECURSIVE GenericForEach(_, _, _, _, _)
GenericForEach(dom, pageUrl, found, k, jobElements) ==
  IF k > Len(found) THEN jobElements
  ELSE LET title  == GenericTitle(dom, found[k])
           jobUrl == GenericJobUrl(dom, found[k], pageUrl)
       IN GenericForEach(dom, pageUrl, found, k + 1,
            IF GenericAccepts(title)
            THEN Append(jobElements,
                        [id       |-> GenericId(k - 1, jobElements),
                         title    |-> title,
                         location |-> GenericLocation(dom, found[k]),
                         url      |-> IF jobUrl # "" THEN jobUrl ELSE pageUrl])
            ELSE jobElements)

\* The script of scrapeGeneric's page.evaluate
GenericEvaluate(dom, pageUrl) ==
  LET c == GenericCascade(dom)
  IN [cands   |-> c.cands,
      queried |-> c.queried,
      jobs    |-> GenericForEach(dom, pageUrl, c.cands, 1, <<>>)]

(* ---------------------------------------------------------------------- *)
(* The pages a run may meet: up to MaxFrags fragments, one after another   *)
(* ---------------------------------------------------------------------- *)

\* <li class="css-1q2dra3"><a data-automation-id="jobTitle" href="/job/NYC/R1">..</a><dd>..</dd></li>
FragWorkdayItem ==
  << El("LI", 0, "", [class |-> "css-1q2dra3"]),
     El("A", 1, "  Software \n Engineer ",
        ("data-automation-id" :> "jobTitle") @@ [href |-> "/job/NYC/R1"]),
     El("DD", 1, " New York, NY ", NoAttrs) >>

\* <li role="listitem"><a href="/job/2">PM </a><span>Austin, TX</span></li>
FragShortTitle ==
  << El("LI", 0, "", [role |-> "listitem"]),
     El("A", 1, "PM ", [href |-> "/job/2"]),
     El("SPAN", 1, "Austin, TX", NoAttrs) >>

\* <a aria-label="apply for job" href="/apply/3">Data Analyst</a>
FragAriaLink ==
  << El("A", 0, "Data Analyst",
        ("aria-label" :> "apply for job") @@ [href |-> "/apply/3"]) >>

\* <div class="job-listing"><h3>Designer</h3><span class="location"> Berlin </span><a href="/apply/4">Apply</a></div>
FragJobListing ==
  << El("DIV", 0, "", [class |-> "job-listing"]),
     El("H3", 1, "Designer", NoAttrs),
     El("SPAN", 1, " Berlin ", [class |-> "location"]),
     El("A", 1, "Apply", [href |-> "/apply/4"]) >>

\* <a href="/position/5"> QA  Lead</a>
FragPositionLink ==
  << El("A", 0, " QA  Lead", [href |-> "/position/5"]) >>

\* <li class="css-abc"><a>Intern Program</a></li>
FragCssItemNoHref ==
  << El("LI", 0, "", [class |-> "css-abc"]),
     El("A", 1, "Intern Program", NoAttrs) >>

\* <div class="job-card"><h2>Senior Chef</h2></div>
FragJobCard ==
  << El("DIV", 0, "", [class |-> "job-card"]),
     El("H2", 1, "Senior Chef", NoAttrs) >>

\* <li>Toronto, Canada<a href="/job/9">Staff Nurse</a></li>
FragJobLink ==
  << El("LI", 0, "Toronto, Canada", NoAttrs),
     El("A", 1, "Staff Nurse", [href |-> "/job/9"]) >>

FragmentPool ==
  { FragWorkdayItem, FragShortTitle, FragAriaLink, FragJobListing,
    FragPositionLink, FragCssItemNoHref, FragJobCard,
    FragJobLink }

\* A fragment placed after `offset` elements: its parent links shifted
Shift(frag, offset) ==
  [i \in 1..Len(frag) |->
     [frag[i] EXCEPT !.parent = IF frag[i].parent = 0 THEN 0
                                ELSE frag[i].parent + offset]]

RECURSIVE Concat(_)
Concat(frags) ==
  IF Len(frags) = 0 THEN <<>>
  ELSE LET head == Concat(SubSeq(frags, 1, Len(frags) - 1))
       IN head \o Shift(frags[Len(frags)], Len(head))

DOMs ==
  { Concat(fs) : fs \in UNION { [1..n -> FragmentPool] : n \in 0..MaxFrags } }

\* The URLs a run may be given
Urls ==
  { "https://acme.wd3.myworkdayjobs.com/careers",
    "https://jobs.example.com/openings" }

(* ---------------------------------------------------------------------- *)
(* scrapeWithPuppeteer: one run, one step per awaited operation            *)
(* ---------------------------------------------------------------------- *)

VARIABLES
  url,            \* the argument of scrapeWithPuppeteer
  pc,             \* the await the run is suspended at, "done" after it settled
  browser,        \* "none" (the variable is undefined), "open", "closed"
  closeCalls,     \* how many times browser.close() was called
  profile,        \* "none", "Specialized" (scrapeWorkday) or "Generic"
  log,            \* the steps completed so far, in order
  probeTimedOut,  \* the Promise.race of scrapeWorkday rejected
  totalHeight,    \* autoScroll's totalHeight
  scrollHeight,   \* document.body.scrollHeight as last read by autoScroll
  dom,            \* the DOM the extraction script ran on
  cands,          \* the elements the cascade passed to field extraction
  queried,        \* the strategies of the cascade whose query ran
  jobs,           \* the array the extraction script returned
  failedAt,       \* the steps that raised, in order
  outcome,        \* "pending", "returned" or "threw" (the promise rejected)
  result,         \* the value returned
  evaluated,      \* the extraction scripts handed to page.evaluate, in order
  runs,           \* interleaved runs: each run's await and its own `browser`
  browsers,       \* interleaved runs: the browser instances launched so far
  fetcher,        \* the call of fetchWithTimeout in progress
  handler         \* the POST /api/fetch-jobs request in progress

\* The state of the other components, which a run of scrapeWithPuppeteer
\* never touches
others == << runs, browsers, fetcher, handler >>

scrapeVars == << url, pc, browser, closeCalls, profile, log, probeTimedOut,
                 totalHeight, scrollHeight, dom, cands, queried, jobs,
                 failedAt, outcome, result, evaluated >>

vars == << scrapeVars, others >>

NoResult == [pending |-> TRUE]

NoJobsError ==
  "No job listings found. The page may require interaction or have a different structure."

\* error.message of the failure of a step
ErrorMessage(step) ==
  CASE step = "launch"       -> "Failed to launch the browser process!"
    [] step = "newPage"      -> "Protocol error (Target.createTarget): Target closed"
    [] step = "setViewport"  -> "Protocol error (Emulation.setDeviceMetricsOverride): Target closed"
    [] step = "setUserAgent" -> "Protocol error (Network.setUserAgentOverride): Target closed"
    [] step = "goto"         -> "Navigation timeout of 30000 ms exceeded"
    [] step = "probe"        -> "Waiting for selector failed: Waiting failed: 15000ms exceeded"
    [] step = "scroll"       -> "Execution context was destroyed, most likely because of a navigation."
    [] step = "extract"      -> "Evaluation failed: TypeError"
    [] step = "close"        -> "Protocol error (Browser.close): Target closed"

Failure(message) == [success |-> FALSE, error |-> message]

\* No interleaved runs, no fetch and no request in progress
OthersIdle ==
  /\ runs = <<>>
  /\ browsers = <<>>
  /\ fetcher = [pc |-> "idle"]
  /\ handler = [pc |-> "idle"]

\* The locals of scrapeWithPuppeteer at its entry: `let browser;`
Fresh ==
  /\ browser = "none"
  /\ closeCalls = 0
  /\ profile = "none"
  /\ log = <<>>
  /\ probeTimedOut = FALSE
  /\ totalHeight = 0
  /\ scrollHeight = 0
  /\ dom = <<>>
  /\ cands = <<>>
  /\ queried = <<>>
  /\ jobs = <<>>
  /\ failedAt = <<>>
  /\ outcome = "pending"
  /\ result = NoResult
  /\ evaluated = <<>>

\* scrapeWithPuppeteer(u) has been called
Called(u) ==
  /\ url = u
  /\ pc = "launch"
  /\ Fresh

\* scrapeWithPuppeteer has not been called
NotCalled ==
  /\ url = ""
  /\ pc = "idle"
  /\ Fresh

Init ==
  /\ \E u \in Urls : Called(u)
  /\ OthersIdle

\* The catch block of scrapeWithPuppeteer, entered when `step` raised:
\* `if (browser) await browser.close()`, else the failure is returned at once
Catch(step) ==
  /\ failedAt' = Append(failedAt, step)
  /\ IF browser # "none"
     THEN /\ closeCalls' = closeCalls + 1
          /\ pc' = "catchClose"
          /\ UNCHANGED << outcome, result >>
     ELSE /\ pc' = "done"
          /\ outcome' = "returned"
          /\ result' = Failure(ErrorMessage(step))
          /\ UNCHANGED closeCalls

\* A step that resolved: the run goes on to await `next`
Proceed(step, next) ==
  /\ log' = Append(log, step)
  /\ pc' = next
  /\ UNCHANGED << failedAt, closeCalls, outcome, result >>

\* browser = await puppeteer.launch(...)
Launch ==
  /\ pc = "launch"
  /\ \/ /\ browser' = "open"
        /\ Proceed("launch", "newPage")
     \/ /\ Catch("launch")
        /\ UNCHANGED << browser, log >>
  /\ UNCHANGED << others, evaluated, url, profile, probeTimedOut, totalHeight, scrollHeight,
                  dom, cands, queried, jobs >>

\* An awaited page operation between the launch and the settle delay
PageStep(step, next) ==
  /\ pc = step
  /\ \/ Proceed(step, next)
     \/ /\ Catch(step)
        /\ UNCHANGED log
  /\ UNCHANGED << others, evaluated, url, browser, profile, probeTimedOut, totalHeight,
                  scrollHeight, dom, cands, queried, jobs >>

\* const page = await browser.newPage()
NewPage == PageStep("newPage", "setViewport")

\* await page.setViewport(...)
SetViewport == PageStep("setViewport", "setUserAgent")

\* await page.setUserAgent(...)
SetUserAgent == PageStep("setUserAgent", "goto")

\* await page.goto(url, { waitUntil: 'networkidle2', timeout: 30000 })
Goto == PageStep("goto", "settle")

\* The profile scrapeWithPuppeteer dispatches to
Classify(u) == IF isWorkday(u) THEN "Specialized" ELSE "Generic"

\* FirstStepOf with scrapeWorkday going straight to its extraction script
FirstStepOf_NoScroll(p) ==
  IF p = "Specialized" THEN "workdayEvaluate" ELSE "genericEvaluate"

\* FirstStepOf with the Generic profile navigating again
FirstStepOf_Renavigate(p) == IF p = "Specialized" THEN "probe" ELSE "goto"

\* What the run awaits first once the profile is chosen
FirstStepOf(p) == IF p = "Specialized" THEN "probe" ELSE "genericEvaluate"

\* await sleep(3000); if (isWorkday(url)) scrapeWorkday(page) else scrapeGeneric(page)
Settle ==
  /\ pc = "settle"
  /\ profile' = Classify(url)
  /\ log' = log \o << "settle", "classify" >>
  /\ pc' = FirstStepOf(Classify(url))
  /\ UNCHANGED << others, evaluated, url, browser, closeCalls, probeTimedOut, totalHeight,
                  scrollHeight, dom, cands, queried, jobs, failedAt, outcome,
                  result >>

\* ProbeRejected without the try/catch around the race
ProbeRejected_Uncaught ==
  /\ probeTimedOut' = TRUE
  /\ Catch("probe")
  /\ UNCHANGED log

\* catch (e) { console.log('Initial wait failed, trying to extract anyway...') }
ProbeRejected ==
  /\ probeTimedOut' = TRUE
  /\ Proceed("probe", "workdaySettle")

\* try { await Promise.race([page.waitForSelector(..., { timeout: 15000 }) x 4]) }
Probe ==
  /\ pc = "probe"
  /\ \/ /\ Proceed("probe", "workdaySettle")
        /\ UNCHANGED probeTimedOut
     \/ ProbeRejected
  /\ UNCHANGED << others, evaluated, url, browser, profile, totalHeight, scrollHeight, dom,
                  cands, queried, jobs >>

\* await sleep(3000); autoScroll(page): let totalHeight = 0; setInterval(...)
WorkdaySettle ==
  /\ pc = "workdaySettle"
  /\ totalHeight' = 0
  /\ Proceed("settle", "scroll")
  /\ UNCHANGED << others, evaluated, url, browser, profile, probeTimedOut, scrollHeight, dom,
                  cands, queried, jobs >>

\* document.body.scrollHeight at a tick: a fixed page (empty, short, very
\* tall) or a page that has grown since the last tick
ScrollHeights(total) == {0, 1500, 10000000, total + 500}

\* ScrollStops without the cap
ScrollStops_NoCap(total, height) == total >= height

\* ScrollStops with the cap reached rather than exceeded
ScrollStops_CapInclusive(total, height) == total >= height \/ total >= ScrollCap

\* if (totalHeight >= scrollHeight || totalHeight > 3000)
ScrollStops(total, height) == total >= height \/ total > ScrollCap

\* One tick of autoScroll's interval: read scrollHeight, scrollBy, add the
\* distance, and on the stop condition clearInterval and resolve
ScrollTick ==
  /\ pc = "scroll"
  /\ \E h \in ScrollHeights(totalHeight) :
       /\ scrollHeight' = h
       /\ totalHeight' = totalHeight + distance
       /\ IF ScrollStops(totalHeight + distance, h)
          THEN Proceed("scroll", "workdaySettle2")
          ELSE UNCHANGED << pc, log, failedAt, closeCalls, outcome, result >>
  /\ UNCHANGED << others, evaluated, url, browser, profile, probeTimedOut, dom, cands, queried,
                  jobs >>

\* autoScroll's page.evaluate rejects: nothing in autoScroll or scrapeWorkday
\* catches it
ScrollFail ==
  /\ pc = "scroll"
  /\ Catch("scroll")
  /\ UNCHANGED << others, evaluated, url, browser, profile, log, probeTimedOut, totalHeight,
                  scrollHeight, dom, cands, queried, jobs >>

\* await sleep(2000); the in-page script of autoScroll is gone with its locals
WorkdaySettle2 ==
  /\ pc = "workdaySettle2"
  /\ totalHeight' = 0
  /\ scrollHeight' = 0
  /\ Proceed("settle", "workdayEvaluate")
  /\ UNCHANGED << others, evaluated, url, browser, profile, probeTimedOut, dom, cands, queried,
                  jobs >>

\* The script's value arrived: scrapeWithPuppeteer calls browser.close()
Extracted(d, r) ==
  /\ dom' = d
  /\ cands' = r.cands
  /\ queried' = r.queried
  /\ jobs' = r.jobs
  /\ log' = Append(log, "extract")
  /\ closeCalls' = closeCalls + 1
  /\ pc' = "close"
  /\ UNCHANGED << failedAt, outcome, result >>

\* const jobs = await page.evaluate(...) of scrapeWorkday, on a page of D
ExtractWorkdayOn(D) ==
  /\ pc = "workdayEvaluate"
  /\ evaluated' = Append(evaluated, "scrapeWorkday")
  /\ \/ \E d \in D : Extracted(d, WorkdayEvaluate(d, url))
     \/ /\ Catch("extract")
        /\ UNCHANGED << log, dom, cands, queried, jobs >>
  /\ UNCHANGED << others, url, browser, profile, probeTimedOut, totalHeight,
                  scrollHeight >>

ExtractWorkday == ExtractWorkdayOn(DOMs)

\* const jobs = await page.evaluate(...) of scrapeGeneric, on a page of D
ExtractGenericOn(D) ==
  /\ pc = "genericEvaluate"
  /\ evaluated' = Append(evaluated, "scrapeGeneric")
  /\ \/ \E d \in D : Extracted(d, GenericEvaluate(d, url))
     \/ /\ Catch("extract")
        /\ UNCHANGED << log, dom, cands, queried, jobs >>
  /\ UNCHANGED << others, url, browser, profile, probeTimedOut, totalHeight,
                  scrollHeight >>

ExtractGeneric == ExtractGenericOn(DOMs)

\* Package without the test for an empty list
Package_EmptySuccess(js) == [success |-> TRUE, jobs |-> js]

\* What scrapeWithPuppeteer returns once browser.close() resolved
Package(js) ==
  IF Len(js) = 0 THEN Failure(NoJobsError)
  ELSE [success |-> TRUE, jobs |-> js]

\* await browser.close() on the normal path
Close ==
  /\ pc = "close"
  /\ \/ /\ browser' = "closed"
        /\ log' = Append(log, "close")
        /\ pc' = "done"
        /\ outcome' = "returned"
        /\ result' = Package(jobs)
        /\ UNCHANGED << failedAt, closeCalls >>
     \/ /\ Catch("close")
        /\ UNCHANGED << browser, log >>
  /\ UNCHANGED << others, evaluated, url, profile, probeTimedOut, totalHeight, scrollHeight,
                  dom, cands, queried, jobs >>

\* await browser.close() inside the catch block: when it resolves the first
\* failure is returned, when it rejects the rejection leaves the function
CatchClose ==
  /\ pc = "catchClose"
  /\ pc' = "done"
  /\ \/ /\ browser' = "closed"
        /\ outcome' = "returned"
        /\ result' = Failure(ErrorMessage(failedAt[Len(failedAt)]))
        /\ UNCHANGED failedAt
     \/ /\ failedAt' = Append(failedAt, "close")
        /\ outcome' = "threw"
        /\ UNCHANGED << browser, result >>
  /\ UNCHANGED << others, evaluated, url, closeCalls, profile, log, probeTimedOut, totalHeight,
                  scrollHeight, dom, cands, queried, jobs >>

Next ==
  \/ Launch
  \/ NewPage
  \/ SetViewport
  \/ SetUserAgent
  \/ Goto
  \/ Settle
  \/ Probe
  \/ WorkdaySettle
  \/ ScrollTick
  \/ ScrollFail
  \/ WorkdaySettle2
  \/ ExtractWorkday
  \/ ExtractGeneric
  \/ Close
  \/ CatchClose

Spec == Init /\ [][Next]_vars

\* The interval of autoScroll keeps firing and every awaited operation
\* settles: a run that can take a step eventually takes one
FairSpec == Spec /\ WF_vars(Next)

(* ---------------------------------------------------------------------- *)
(* The same run over more URLs and over pages of a single listing          *)
(* ---------------------------------------------------------------------- *)

\* URLs with each marker of isWorkday alone, in the host or elsewhere, and
\* URLs that only resemble one
WideUrls ==
  { "https://acme.wd3.myworkdayjobs.com/careers",
    "https://acme.myworkdayjobs.com/jobs",
    "https://wd3.example.org/jobs",
    "https://acme.wd5.example.org/jobs",
    "https://jobs.example.com/?src=wd3.x",
    "wd5.",
    "https://jobs.example.com/openings",
    "https://wd3-jobs.example.com/",
    "https://acme.WD5.example.org/",
    "https://myworkdayjobs.example.com/",
    "https://acme.wd4.example.com/wd5",
    "" }

\* <li><a data-automation-id="jobTitle" href="/job/7">Account Manager</a><dd> </dd><span>Denver, CO</span></li>
FragEmptyLocation ==
  << El("LI", 0, "", NoAttrs),
     El("A", 1, "Account Manager",
        ("data-automation-id" :> "jobTitle") @@ [href |-> "/job/7"]),
     El("DD", 1, " ", NoAttrs),
     El("SPAN", 1, "Denver, CO", NoAttrs) >>

\* The empty page and the pages of one listing
WidePages ==
  { <<>> } \cup { Concat(<< f >>) : f \in FragmentPool \cup { FragEmptyLocation } }

ExtractWorkdayWide == ExtractWorkdayOn(WidePages)

ExtractGenericWide == ExtractGenericOn(WidePages)

WideInit ==
  /\ \E u \in WideUrls : Called(u)
  /\ OthersIdle

WideNext ==
  \/ Launch
  \/ NewPage
  \/ SetViewport
  \/ SetUserAgent
  \/ Goto
  \/ Settle
  \/ Probe
  \/ WorkdaySettle
  \/ ScrollTick
  \/ ScrollFail
  \/ WorkdaySettle2
  \/ ExtractWorkdayWide
  \/ ExtractGenericWide
  \/ Close
  \/ CatchClose

SpecWide == WideInit /\ [][WideNext]_vars

(* ---------------------------------------------------------------------- *)
(* Several calls of scrapeWithPuppeteer interleaved at their awaits.  Each *)
(* call has its own local `browser`; the page operations of lines 260-288  *)
(* are one step, which resolves or raises into the catch block.            *)
(* ---------------------------------------------------------------------- *)

MaxRuns == 2

\* A browser instance with close() called once more, by run r
CloseCalled(b, r) ==
  [browsers EXCEPT ![b].closedBy = Append(@, r)]

\* scrapeWithPuppeteer(url) is called while earlier calls are in progress
MStart ==
  /\ Len(runs) < MaxRuns
  /\ runs' = Append(runs, [pc |-> "launch", browser |-> 0, outcome |-> "pending"])
  /\ UNCHANGED << browsers, scrapeVars, fetcher, handler >>

\* The catch block of run r: if (browser) await browser.close()
MCatch(r) ==
  IF runs[r].browser # 0
  THEN /\ runs' = [runs EXCEPT ![r].pc = "catchClose"]
       /\ browsers' = CloseCalled(runs[r].browser, r)
  ELSE /\ runs' = [runs EXCEPT ![r].pc = "done", ![r].outcome = "returned"]
       /\ UNCHANGED browsers

\* browser = await puppeteer.launch(...) of run r
MLaunch(r) ==
  /\ runs[r].pc = "launch"
  /\ \/ /\ browsers' = Append(browsers, [owner |-> r, state |-> "open", closedBy |-> <<>>])
        /\ runs' = [runs EXCEPT ![r].pc = "page", ![r].browser = Len(browsers) + 1]
     \/ MCatch(r)
  /\ UNCHANGED << scrapeVars, fetcher, handler >>

\* newPage ... page.evaluate of run r, then browser.close() is called
MPage(r) ==
  /\ runs[r].pc = "page"
  /\ \/ /\ runs' = [runs EXCEPT ![r].pc = "close"]
        /\ browsers' = CloseCalled(runs[r].browser, r)
     \/ MCatch(r)
  /\ UNCHANGED << scrapeVars, fetcher, handler >>

\* await browser.close() of run r on the normal path
MClose(r) ==
  /\ runs[r].pc = "close"
  /\ \/ /\ browsers' = [browsers EXCEPT ![runs[r].browser].state = "closed"]
        /\ runs' = [runs EXCEPT ![r].pc = "done", ![r].outcome = "returned"]
     \/ MCatch(r)
  /\ UNCHANGED << scrapeVars, fetcher, handler >>

\* await browser.close() of run r inside the catch block
MCatchClose(r) ==
  /\ runs[r].pc = "catchClose"
  /\ \/ /\ browsers' = [browsers EXCEPT ![runs[r].browser].state = "closed"]
        /\ runs' = [runs EXCEPT ![r].pc = "done", ![r].outcome = "returned"]
     \/ /\ runs' = [runs EXCEPT ![r].pc = "done", ![r].outcome = "threw"]
        /\ UNCHANGED browsers
  /\ UNCHANGED << scrapeVars, fetcher, handler >>

MultiInit ==
  /\ NotCalled
  /\ OthersIdle

MultiNext ==
  \/ MStart
  \/ \E r \in DOMAIN runs : MLaunch(r)
  \/ \E r \in DOMAIN runs : MPage(r)
  \/ \E r \in DOMAIN runs : MClose(r)
  \/ \E r \in DOMAIN runs : MCatchClose(r)

MultiSpec == MultiInit /\ [][MultiNext]_vars

(* ---------------------------------------------------------------------- *)
(* fetchWithTimeout(url, timeoutMs): one call, one step per event          *)
(* ---------------------------------------------------------------------- *)

\* The call has been made: controller created, timer armed, fetch started
FetchCalled(u, ms) ==
  [pc |-> "fetching", url |-> u, timeoutMs |-> ms, timer |-> "armed",
   elapsedAt |-> "never", result |-> NoResult]

\* The responses a server may begin: status, statusText
Responses ==
  { [status |-> 200, statusText |-> "OK"],
    [status |-> 404, statusText |-> "Not Found"] }

\* response.ok
Ok(response) == response.status >= 200 /\ response.status <= 299

\* The texts a body may hold
Payloads == { "{\"jobs\":[]}", "[]", "null", "<html>" }

\* clearTimeout(timeoutId): an armed timer is cancelled, any other is left
ClearTimeout(timer) == IF timer = "armed" THEN "cleared" ELSE timer

\* timeoutMs have passed since the call: the timer, if still armed, fires
\* and its callback calls controller.abort()
TimeoutElapses ==
  /\ fetcher.pc \in {"fetching", "reading", "done"}
  /\ fetcher.elapsedAt = "never"
  /\ fetcher' = [fetcher EXCEPT !.elapsedAt = fetcher.pc,
                                !.timer = IF @ = "armed" THEN "fired" ELSE @]
  /\ UNCHANGED << scrapeVars, runs, browsers, handler >>

\* await fetch(...) resolved with the response's head; clearTimeout;
\* if (!response.ok) return { success: false, error: `HTTP ...` }
FetchResolves ==
  /\ fetcher.pc = "fetching"
  /\ fetcher.timer = "armed"
  /\ \E response \in Responses :
       fetcher' =
         IF Ok(response)
         THEN [fetcher EXCEPT !.pc = "reading", !.timer = ClearTimeout(@)]
         ELSE [fetcher EXCEPT
                 !.pc = "done",
                 !.timer = ClearTimeout(@),
                 !.result = Failure("HTTP " \o ToString(response.status) \o ": "
                                      \o response.statusText)]
  /\ UNCHANGED << scrapeVars, runs, browsers, handler >>

\* await fetch(...) rejected: with an AbortError once the controller has
\* aborted, with a network error otherwise; the catch block
FetchRejects ==
  /\ fetcher.pc = "fetching"
  /\ fetcher' = [fetcher EXCEPT
                   !.pc = "done",
                   !.timer = ClearTimeout(@),
                   !.result = IF fetcher.timer = "fired"
                              THEN Failure("Request timed out")
                              ELSE Failure("fetch failed")]
  /\ UNCHANGED << scrapeVars, runs, browsers, handler >>

\* const html = await response.text(); return { success: true, data: html }
TextResolves ==
  /\ fetcher.pc = "reading"
  /\ \E data \in Payloads :
       fetcher' = [fetcher EXCEPT !.pc = "done",
                                  !.result = [success |-> TRUE, data |-> data]]
  /\ UNCHANGED << scrapeVars, runs, browsers, handler >>

\* await response.text() rejected (the connection broke): the catch block
TextRejects ==
  /\ fetcher.pc = "reading"
  /\ fetcher' = [fetcher EXCEPT !.pc = "done",
                                !.timer = ClearTimeout(@),
                                !.result = Failure("terminated")]
  /\ UNCHANGED << scrapeVars, runs, browsers, handler >>

(* ---------------------------------------------------------------------- *)
(* POST /api/fetch-jobs: the request handler                               *)
(* ---------------------------------------------------------------------- *)

\* The first index from `from` on whose character is in chars, Len(s) + 1
\* when there is none
RECURSIVE IndexOfAny(_, _, _)
IndexOfAny(s, chars, from) ==
  IF from > Len(s) THEN Len(s) + 1
  ELSE IF CharAt(s, from) \in chars THEN from
  ELSE IndexOfAny(s, chars, from + 1)

StartsWith(s, prefix) ==
  Len(s) >= Len(prefix) /\ SubSeq(s, 1, Len(prefix)) = prefix

\* The lower-case letter of an ASCII capital, any other character itself
ToLowerChar(c) ==
  IF c \in UpperCase
  THEN CharAt("abcdefghijklmnopqrstuvwxyz",
              IndexOfAny("ABCDEFGHIJKLMNOPQRSTUVWXYZ", {c}, 1))
  ELSE c

\* String.prototype.toLowerCase on ASCII letters, from the i-th character on
RECURSIVE ToLowerCaseFrom(_, _)
ToLowerCaseFrom(s, i) ==
  IF i > Len(s) THEN ""
  ELSE ToLowerChar(CharAt(s, i)) \o ToLowerCaseFrom(s, i + 1)

ToLowerCase(s) == ToLowerCaseFrom(s, 1)

\* The scheme and '//' of an http(s) URL, "" for any other string
SchemeOf(s) ==
  IF StartsWith(s, "https://") THEN "https://"
  ELSE IF StartsWith(s, "http://") THEN "http://"
  ELSE ""

\* Where the host of an http(s) URL ends
HostEnd(s) == IndexOfAny(s, {"/", "?", "#"}, Len(SchemeOf(s)) + 1)

\* new URL(s) does not throw: an http(s) URL with a host (no other scheme,
\* no credentials and no port occur among the requests)
ParsesAsUrl(s) == SchemeOf(s) # "" /\ HostEnd(s) > Len(SchemeOf(s)) + 1

\* new URL(s).hostname
Hostname(s) == ToLowerCase(SubSeq(s, Len(SchemeOf(s)) + 1, HostEnd(s) - 1))

\* new URL(s).pathname
Pathname(s) ==
  IF At(s, HostEnd(s)) # "/" THEN "/"
  ELSE SubSeq(s, HostEnd(s), IndexOfAny(s, {"?", "#"}, HostEnd(s)) - 1)

\* url.match(/[?&]for=([^&]+)/): the captured group of the first match from
\* i on, "" when there is no match
RECURSIVE ForMatchFrom(_, _)
ForMatchFrom(s, i) ==
  IF i > Len(s) THEN ""
  ELSE IF /\ CharAt(s, i) \in {"?", "&"}
          /\ SubSeq(s, i + 1, i + 4) = "for="
          /\ At(s, i + 5) \notin {"", "&"}
       THEN SubSeq(s, i + 5, IndexOfAny(s, {"&"}, i + 5) - 1)
       ELSE ForMatchFrom(s, i + 1)

ForMatch(s) == ForMatchFrom(s, 1)

\* pathname.match(/\/([^\/]+)/): the captured group of the first match from
\* i on, "" when there is no match
RECURSIVE PathMatchFrom(_, _)
PathMatchFrom(path, i) ==
  IF i > Len(path) THEN ""
  ELSE IF CharAt(path, i) = "/" /\ At(path, i + 1) \notin {"", "/"}
       THEN SubSeq(path, i + 1, IndexOfAny(path, {"/"}, i + 1) - 1)
       ELSE PathMatchFrom(path, i + 1)

PathMatch(path) == PathMatchFrom(path, 1)

\* The company of a Greenhouse board URL, "" when none is detected
GreenhouseCompany(u) ==
  IF ForMatch(u) # "" THEN ForMatch(u)
  ELSE IF PathMatch(Pathname(u)) # "" /\ PathMatch(Pathname(u)) # "embed"
       THEN PathMatch(Pathname(u))
       ELSE ""

\* JSON.parse on the payloads of the model
ParseJson(data) ==
  CASE data = "{\"jobs\":[]}" -> [kind |-> "object", jobs |-> <<>>]
    [] data = "[]"            -> [kind |-> "array", items |-> <<>>]
    [] data = "null"          -> [kind |-> "null"]
    [] OTHER                  -> [kind |-> "SyntaxError"]

\* The bodies of the requests
Bodies ==
  { [x \in {} |-> ""],
    [url |-> ""],
    [url |-> "jobs.example.com/openings"],
    [url |-> "https://boards.greenhouse.io/acme/jobs/1"],
    [url |-> "https://Boards.Greenhouse.IO/embed/job_board?for=globex&b=1"],
    [url |-> "https://boards.greenhouse.io/embed"],
    [url |-> "https://jobs.lever.co/acme"],
    [url |-> "https://jobs.lever.co"],
    [url |-> "https://jobs.example.com/?from=greenhouse.io"],
    [url |-> "https://acme.wd3.myworkdayjobs.com/lever.co"] }

\* const { url } = req.body; !url
HasUrl(body) == "url" \in DOMAIN body /\ body.url # ""

\* What the handler does before its first await: a response, a call of
\* fetchWithTimeout or the call of scrapeWithPuppeteer
Route(body) ==
  IF ~HasUrl(body)
  THEN [kind |-> "respond", status |-> 400, body |-> Failure("URL is required")]
  ELSE IF ~ParsesAsUrl(body.url)
  THEN [kind |-> "respond", status |-> 500, body |-> Failure("Invalid URL")]
  ELSE IF Includes(Hostname(body.url), "greenhouse.io")
  THEN IF GreenhouseCompany(body.url) = ""
       THEN [kind |-> "respond", status |-> 400,
             body |-> Failure("Unable to detect company name")]
       ELSE [kind |-> "fetch", platform |-> "Greenhouse",
             company |-> GreenhouseCompany(body.url),
             apiUrl |-> "https://boards-api.greenhouse.io/v1/boards/"
                          \o GreenhouseCompany(body.url) \o "/jobs"]
  ELSE IF Includes(Hostname(body.url), "lever.co")
  THEN IF PathMatch(Pathname(body.url)) = ""
       THEN [kind |-> "respond", status |-> 400,
             body |-> Failure("Unable to detect company name from Lever URL")]
       ELSE [kind |-> "fetch", platform |-> "Lever",
             company |-> PathMatch(Pathname(body.url)),
             apiUrl |-> "https://api.lever.co/v0/postings/"
                          \o PathMatch(Pathname(body.url))]
  ELSE [kind |-> "scrape"]

\* The request has reached the handler
Received(body) ==
  [pc |-> "received", body |-> body, responses |-> <<>>, fetchCalls |-> 0,
   scrapeCalls |-> 0, platform |-> "", company |-> ""]

\* return res.status(status).json(body)
Respond(h, status, body) ==
  [h EXCEPT !.pc = "responded",
            !.responses = Append(@, [status |-> status, body |-> body])]

\* The locals of scrapeWithPuppeteer other than its argument and its position
scrapeLocals == << browser, closeCalls, profile, log, probeTimedOut, totalHeight,
                   scrollHeight, dom, cands, queried, jobs, failedAt, outcome,
                   result, evaluated >>

\* The handler from its entry to its first await or its response
HRoute ==
  /\ handler.pc = "received"
  /\ LET r == Route(handler.body)
     IN \/ /\ r.kind = "respond"
           /\ handler' = Respond(handler, r.status, r.body)
           /\ UNCHANGED << fetcher, scrapeVars >>
        \/ /\ r.kind = "fetch"
           /\ handler' = [handler EXCEPT !.pc = "awaitFetch",
                                         !.platform = r.platform,
                                         !.company = r.company,
                                         !.fetchCalls = @ + 1]
           /\ fetcher' = FetchCalled(r.apiUrl, 10000)
           /\ UNCHANGED scrapeVars
        \/ /\ r.kind = "scrape"
           /\ handler' = [handler EXCEPT !.pc = "awaitScrape",
                                         !.platform = "Generic Scraper",
                                         !.scrapeCalls = @ + 1]
           /\ url' = handler.body.url
           /\ pc' = "launch"
           /\ UNCHANGED << fetcher, scrapeLocals >>
  /\ UNCHANGED << runs, browsers >>

\* The response of the Greenhouse branch to the value of fetchWithTimeout
AfterGreenhouse(company, r) ==
  IF ~r.success
  THEN [status |-> 500,
        body |-> Failure("Failed to fetch jobs: " \o r.error \o ". Company \""
                           \o company \o "\" may not have a public Greenhouse board.")]
  ELSE LET parsed == ParseJson(r.data)
       IN CASE parsed.kind = "SyntaxError" ->
                 [status |-> 500, body |-> Failure("Failed to parse job data")]
            [] parsed.kind = "null" ->
                 [status |-> 500,
                  body |-> Failure("Cannot read properties of null (reading 'jobs')")]
            [] OTHER ->
                 LET js == IF parsed.kind = "object" THEN parsed.jobs ELSE <<>>
                 IN [status |-> 200,
                     body |-> [success |-> TRUE, jobCount |-> Len(js),
                               platform |-> "Greenhouse", jobs |-> js]]

\* The response of the Lever branch to the value of fetchWithTimeout
AfterLever(r) ==
  IF ~r.success
  THEN [status |-> 500, body |-> Failure("Failed to fetch jobs: " \o r.error)]
  ELSE LET parsed == ParseJson(r.data)
       IN CASE parsed.kind = "SyntaxError" ->
                 [status |-> 500,
                  body |-> Failure("Unexpected token < in JSON at position 0")]
            [] parsed.kind = "null" ->
                 [status |-> 500,
                  body |-> Failure("Cannot read properties of null (reading 'length')")]
            [] parsed.kind = "object" ->
                 [status |-> 500, body |-> Failure("jobs.map is not a function")]
            [] OTHER ->
                 [status |-> 200,
                  body |-> [success |-> TRUE, jobCount |-> Len(parsed.items),
                            platform |-> "Lever", jobs |-> parsed.items]]

\* await fetchWithTimeout(apiUrl, 10000) has settled
HFetchSettled ==
  /\ handler.pc = "awaitFetch"
  /\ fetcher.pc = "done"
  /\ LET r == IF handler.platform = "Greenhouse"
              THEN AfterGreenhouse(handler.company, fetcher.result)
              ELSE AfterLever(fetcher.result)
     IN handler' = Respond(handler, r.status, r.body)
  /\ UNCHANGED << fetcher, scrapeVars, runs, browsers >>

\* AfterScrape answering 200 whatever the result
AfterScrape_AlwaysOk(how, r) ==
  IF how = "threw"
  THEN [status |-> 500, body |-> Failure(ErrorMessage("close"))]
  ELSE [status |-> 200, body |-> r]

\* The response to the settled promise of scrapeWithPuppeteer: its value r
\* when it resolved, the catch block of the handler when it rejected
AfterScrape(how, r) ==
  IF how = "threw"
  THEN [status |-> 500, body |-> Failure(ErrorMessage("close"))]
  ELSE IF ~r.success
  THEN [status |-> 500, body |-> r]
  ELSE [status |-> 200,
        body |-> [success |-> TRUE, jobCount |-> Len(r.jobs),
                  platform |-> "Generic Scraper", jobs |-> r.jobs]]

\* await scrapeWithPuppeteer(url) has settled
HScrapeSettled ==
  /\ handler.pc = "awaitScrape"
  /\ pc = "done"
  /\ LET r == AfterScrape(outcome, result)
     IN handler' = Respond(handler, r.status, r.body)
  /\ UNCHANGED << fetcher, scrapeVars, runs, browsers >>

\* The pages a scraped site may show
ServerPages ==
  { <<>>, Concat(<< FragWorkdayItem >>), Concat(<< FragJobListing >>),
    Concat(<< FragShortTitle >>) }

ExtractWorkdayServed == ExtractWorkdayOn(ServerPages)

ExtractGenericServed == ExtractGenericOn(ServerPages)

ServerInit ==
  /\ NotCalled
  /\ runs = <<>>
  /\ browsers = <<>>
  /\ fetcher = [pc |-> "idle"]
  /\ \E body \in Bodies : handler = Received(body)

ServerNext ==
  \/ HRoute
  \/ TimeoutElapses
  \/ FetchResolves
  \/ FetchRejects
  \/ TextResolves
  \/ TextRejects
  \/ HFetchSettled
  \/ Launch
  \/ NewPage
  \/ SetViewport
  \/ SetUserAgent
  \/ Goto
  \/ Settle
  \/ Probe
  \/ WorkdaySettle
  \/ ScrollTick
  \/ ScrollFail
  \/ WorkdaySettle2
  \/ ExtractWorkdayServed
  \/ ExtractGenericServed
  \/ Close
  \/ CatchClose
  \/ HScrapeSettled

ServerSpec == ServerInit /\ [][ServerNext]_vars

\* Every awaited operation settles and every timer runs out
ServerFairSpec == ServerSpec /\ WF_vars(ServerNext)

(* ---------------------------------------------------------------------- *)
(* Properties                                                              *)
(* ---------------------------------------------------------------------- *)

InSeq(x, s) == \E i \in 1..Len(s) : s[i] = x

\* The extraction script of the run has been evaluated
ExtractionRan == InSeq("extract", log)

\* C1: when the launch succeeded, browser.close() has been called exactly
\* once by the time the run settles, on every exit path, the failure of the
\* close call itself included; when the launch failed it is never called.
C1_ClosedExactlyOnce ==
  pc = "done" => closeCalls = (IF browser = "none" THEN 0 ELSE 1)

\* C2: no exception escapes scrapeWithPuppeteer: the run never ends with its
\* promise rejected, and a run in which a step failed returns
\* {success: false, error: <the failure's message>}.
C2_NoExceptionEscapes ==
  pc = "done" =>
    /\ outcome = "returned"
    /\ failedAt # <<>> => result = Failure(ErrorMessage(failedAt[1]))

\* The steps before the profile's own, in the order the code awaits them
CommonSteps ==
  << "launch", "newPage", "setViewport", "setUserAgent", "goto", "settle",
     "classify" >>

\* The log without the steps outside `keep`
Only(keep) == LET kept(x) == x \in keep IN SelectSeq(log, kept)

\* C3 as claimed: in every run that reaches extraction, of either profile,
\* navigation, settle delay, scroll, settle delay, classification and
\* extraction happen in this order.
C3_ScrollBeforeClassifyAndExtract ==
  ExtractionRan =>
    Only({"goto", "settle", "scroll", "classify", "extract"})
      = << "goto", "settle", "scroll", "settle", "classify", "extract" >>

\* C3 as amended: in every run that reaches extraction the classifier runs
\* right after navigation and the first settle delay; the Specialized
\* profile then probes, settles, scrolls to completion, settles again and
\* extracts; the Generic profile extracts at once, on a page never scrolled.
C3_StepOrder ==
  ExtractionRan =>
    Only({x \in {log[i] : i \in 1..Len(log)} : x # "close"})
      = CommonSteps \o (IF profile = "Specialized"
                        THEN << "probe", "settle", "scroll", "settle", "extract" >>
                        ELSE << "extract" >>)

C3_Witness ==
  /\ outcome = "returned"
  /\ profile = "Specialized"
  /\ InSeq("scroll", log)
  /\ result.success

\* The candidates strategy k of profile p yields on the DOM d
StrategyYield(p, d, k) ==
  IF p = "Specialized"
  THEN CASE k = 1 -> QuerySelectorAll(d, WorkdayStrategy1)
         [] k = 2 -> QuerySelectorAll(d, WorkdayStrategy2)
         [] k = 3 -> QuerySelectorAll(d, WorkdayStrategy3)
         [] k = 4 -> ListItemAnchors(d)
  ELSE QuerySelectorAll(d, GenericSelectors[k])

StrategyCount(p) == IF p = "Specialized" THEN 4 ELSE Len(GenericSelectors)

\* The strategies of profile p that yield at least one candidate on d
Yielding(p, d) == {k \in 1..StrategyCount(p) : Len(StrategyYield(p, d, k)) > 0}

Min(S) == CHOOSE k \in S : \A j \in S : k <= j

\* C4: in both cascades the strategies are queried in priority order up to
\* and including the first that yields a candidate and no further; the
\* candidates passed on are those of that strategy, and are empty only when
\* every strategy was queried and yielded none.
C4_FirstMatchWins ==
  ExtractionRan =>
    LET hits == Yielding(profile, dom)
        last == IF hits = {} THEN StrategyCount(profile) ELSE Min(hits)
    IN /\ queried = [i \in 1..last |-> i]
       /\ cands = (IF hits = {} THEN <<>> ELSE StrategyYield(profile, dom, Min(hits)))

C4_Witness ==
  /\ ExtractionRan
  /\ Len(queried) >= 2
  /\ Len(cands) > 0
  /\ \E k \in Yielding(profile, dom) : k > Len(queried)

\* The title field extraction resolves for candidate c of profile p
TitleOf(p, d, c) == IF p = "Specialized" THEN WorkdayTitle(d, c) ELSE GenericTitle(d, c)

\* C5: every record of a successful result has a title longer than 3
\* characters and a non-empty url, and its title is the one resolved for a
\* candidate, never a default.
C5_RecordsHaveTitleAndUrl ==
  (outcome = "returned" /\ result.success) =>
    \A i \in 1..Len(result.jobs) :
      /\ Len(result.jobs[i].title) > MinTitleLen
      /\ result.jobs[i].url # ""
      /\ \E k \in 1..Len(cands) : result.jobs[i].title = TitleOf(profile, dom, cands[k])

C5_Witness ==
  /\ outcome = "returned"
  /\ result.success
  /\ Len(result.jobs) < Len(cands)
  /\ \E k \in 1..Len(cands) : Len(TitleOf(profile, dom, cands[k])) <= MinTitleLen

\* C6: every run ends by returning one result, either success with at least
\* one record and no error, or failure with a non-empty error and no jobs;
\* success exactly when a candidate was accepted and no step failed.
C6_OneResultOfTwoShapes ==
  pc = "done" =>
    /\ outcome = "returned"
    /\ \/ /\ DOMAIN result = {"success", "jobs"}
          /\ result.success
          /\ Len(result.jobs) >= 1
       \/ /\ DOMAIN result = {"success", "error"}
          /\ ~result.success
          /\ result.error # ""
    /\ result.success <=> (Len(jobs) >= 1 /\ failedAt = <<>>)

\* The acceptance filter of profile p on candidate c of the DOM d
Accepted(p, d, u, c) ==
  IF p = "Specialized"
  THEN WorkdayTitle(d, c) # "" /\ Href(d[c], u) # "" /\ Len(WorkdayTitle(d, c)) > MinTitleLen
  ELSE GenericTitle(d, c) # "" /\ Len(GenericTitle(d, c)) > MinTitleLen

\* The 1-based positions, among all the candidates, of the accepted ones
AcceptedPositions ==
  LET ok(k) == Accepted(profile, dom, url, cands[k])
  IN SelectSeq([k \in 1..Len(cands) |-> k], ok)

\* C7 as claimed: the Specialized ids are 1, 2, ..., n without gaps also when
\* candidates are rejected; a Generic id is the candidate's 1-based position
\* among all the candidates.
C7_SpecializedIdsGapless ==
  ExtractionRan =>
    /\ Len(jobs) = Len(AcceptedPositions)
    /\ \A k \in 1..Len(jobs) :
         jobs[k].id = (IF profile = "Specialized" THEN k ELSE AcceptedPositions[k])

\* C7 as amended: in both profiles the records are the accepted candidates in
\* document order and a record's id is its candidate's 1-based position among
\* all the candidates, accepted or not.
C7_IdIsCandidatePosition ==
  ExtractionRan =>
    /\ Len(jobs) = Len(AcceptedPositions)
    /\ \A k \in 1..Len(jobs) : jobs[k].id = AcceptedPositions[k]

C7_Witness ==
  /\ ExtractionRan
  /\ profile = "Specialized"
  /\ Len(cands) = 3
  /\ Len(jobs) = 2
  /\ jobs[1].id = 2
  /\ jobs[2].id = 3

\* C8: autoScroll terminates whatever scrollHeight the page reports: a tick
\* is only ever awaited with at most 3000 scrolled, and a run that is
\* scrolling eventually is not.
C8_ScrollTerminates ==
  /\ [](pc = "scroll" => totalHeight <= ScrollCap)
  /\ (pc = "scroll") ~> (pc # "scroll")

C8_Witness ==
  /\ pc = "workdaySettle2"
  /\ scrollHeight = 10000000
  /\ totalHeight > ScrollCap

\* C9: a failure of the scroll script is never raised to the caller: no run
\* enters the catch block of scrapeWithPuppeteer because of it.
C9_ScrollFailureNotRaised == ~InSeq("scroll", failedAt)

\* C10: a rejected presence probe is not an error of the run: it is never
\* what the catch block handles or what a failure result reports, and the run
\* goes on through settle delay, scroll and settle delay to extraction.
C10_ProbeTimeoutTolerated ==
  probeTimedOut =>
    /\ ~InSeq("probe", failedAt)
    /\ pc \in {"workdaySettle", "scroll", "workdaySettle2", "workdayEvaluate",
               "close", "catchClose", "done"}
    /\ (pc = "done" /\ failedAt = <<>>) => (outcome = "returned" /\ result = Package(jobs))
    /\ ExtractionRan =>
         Only({"probe", "settle", "scroll", "extract"})
           = << "settle", "probe", "settle", "scroll", "settle", "extract" >>

C10_Witness ==
  /\ probeTimedOut
  /\ outcome = "returned"
  /\ result.success

\* C11: a run in which no step failed and no candidate was accepted returns
\* {success: false} with the error text beginning 'No job listings found',
\* after its one browser.close() resolved; no result is a success with an
\* empty jobs list.
C11_EmptyIsStructuredFailure ==
  /\ (pc = "done" /\ failedAt = <<>> /\ Len(jobs) = 0) =>
       /\ outcome = "returned"
       /\ DOMAIN result = {"success", "error"}
       /\ ~result.success
       /\ SubSeq(result.error, 1, Len("No job listings found")) = "No job listings found"
       /\ browser = "closed"
       /\ closeCalls = 1
  /\ (outcome = "returned" /\ result.success) => Len(result.jobs) >= 1

C11_Witness ==
  /\ pc = "done"
  /\ failedAt = <<>>
  /\ Len(cands) > 0
  /\ Len(jobs) = 0

\* C15: autoScroll scrolls by 100 and tests after each step: it goes on only
\* while the total is below the height just read and at most 3000, so it
\* stops at the first multiple of 100 that reaches the height read at that
\* step or exceeds 3000; it takes at least one step, also for a height of 0,
\* at most 31 steps, and never scrolls more than 3100.
C15_ScrollDistance ==
  /\ totalHeight % distance = 0
  /\ totalHeight <= ScrollCap + distance
  /\ (pc = "scroll" /\ totalHeight > 0) =>
       (totalHeight < scrollHeight /\ totalHeight <= ScrollCap)
  /\ pc = "workdaySettle2" =>
       /\ totalHeight >= distance
       /\ totalHeight \div distance <= (ScrollCap \div distance) + 1
       /\ totalHeight >= scrollHeight \/ totalHeight = ScrollCap + distance

C15_Witness ==
  /\ pc = "workdaySettle2"
  /\ scrollHeight = 0
  /\ totalHeight = distance

\* The position of an await in the pipeline of scrapeWithPuppeteer
Rank(p) ==
  CASE p = "idle"            -> 0
    [] p = "launch"          -> 1
    [] p = "newPage"         -> 2
    [] p = "setViewport"     -> 3
    [] p = "setUserAgent"    -> 4
    [] p = "goto"            -> 5
    [] p = "settle"          -> 6
    [] p = "probe"           -> 7
    [] p = "workdaySettle"   -> 8
    [] p = "scroll"          -> 9
    [] p = "workdaySettle2"  -> 10
    [] p = "workdayEvaluate" -> 11
    [] p = "genericEvaluate" -> 11
    [] p = "close"           -> 12
    [] p = "catchClose"      -> 13
    [] p = "done"            -> 14

\* C17: the run only moves forward through its awaits; it has an outcome
\* exactly when it is done, the outcome once produced never changes and no
\* step of the run follows it; and, every awaited operation settling, every
\* run eventually is done, with the success, the empty or an error outcome.
C17_ForwardToOneOutcome ==
  /\ [][Rank(pc') >= Rank(pc)]_vars
  /\ [](outcome # "pending" <=> pc = "done")
  /\ [][outcome # "pending" => UNCHANGED scrapeVars]_vars
  /\ <>(pc = "done" /\ outcome \in {"returned", "threw"})

C17_Witness ==
  /\ pc = "done"
  /\ outcome = "returned"
  /\ result = Failure(NoJobsError)
  /\ profile = "Specialized"

\* The three substrings isWorkday looks for
Markers == { "myworkdayjobs.com", "wd3.", "wd5." }

\* Some string of ms occurs in u at some position
HasMarkerOf(u, ms) ==
  \E m \in ms : \E i \in 1..Len(u) :
    /\ i + Len(m) - 1 <= Len(u)
    /\ \A k \in 1..Len(m) : CharAt(u, i + k - 1) = CharAt(m, k)

HasMarker(u) == HasMarkerOf(u, Markers)

\* C12: the profile chosen is Specialized exactly when the URL contains
\* 'myworkdayjobs.com', 'wd3.' or 'wd5.', Generic otherwise; a run hands at
\* most one extraction script to the page, the one of the chosen profile, and
\* the steps of scrapeWorkday are only taken under the Specialized profile.
C12_ClassifierSelectsOneProfile ==
  /\ profile # "none" =>
       profile = (IF HasMarker(url) THEN "Specialized" ELSE "Generic")
  /\ Len(evaluated) <= 1
  /\ \A i \in DOMAIN evaluated :
       evaluated[i] = (IF HasMarker(url) THEN "scrapeWorkday" ELSE "scrapeGeneric")
  /\ ExtractionRan => Len(evaluated) = 1
  /\ pc \in {"probe", "workdaySettle", "scroll", "workdaySettle2", "workdayEvaluate"}
       => HasMarker(url)
  /\ pc = "genericEvaluate" => ~HasMarker(url)

C12_Witness ==
  /\ pc = "done"
  /\ url = "https://acme.wd5.example.org/jobs"
  /\ evaluated = << "scrapeWorkday" >>
  /\ outcome = "returned"
  /\ result.success

\* C16: every returned record has a non-empty location, in both profiles:
\* the trimmed text of a location rule when it is non-empty, the sentinel
\* 'Location not specified' otherwise.
C16_LocationNeverEmpty ==
  (outcome = "returned" /\ result.success) =>
     \A i \in DOMAIN result.jobs : result.jobs[i].location # ""

\* Every browser was launched by one run, which launched no other; a run
\* holds only the browser it launched, and close() was called on a browser
\* only by the run that launched it
RunsIsolated ==
  /\ \A b \in DOMAIN browsers :
       /\ browsers[b].owner \in DOMAIN runs
       /\ runs[browsers[b].owner].browser = b
       /\ \A i \in DOMAIN browsers[b].closedBy : browsers[b].closedBy[i] = browsers[b].owner
  /\ \A r \in DOMAIN runs :
       runs[r].browser # 0 => browsers[runs[r].browser].owner = r

\* C13: interleaved runs each launch their own browser and use and close
\* only that one, and once every run has finished every launched browser is
\* closed.
C13_OwnBrowserClosed ==
  /\ RunsIsolated
  /\ (\A r \in DOMAIN runs : runs[r].pc = "done") =>
        \A b \in DOMAIN browsers : browsers[b].state = "closed"

\* C18: fetchWithTimeout returns exactly one of {success: true, data} and
\* {success: false, error}; whenever the timeout ran out before the call
\* returned, while waiting for the response or while reading its body, the
\* result is {success: false, error: 'Request timed out'}; and no timer is
\* left armed once the call has returned.
C18_TimeoutCoversWholeRequest ==
  fetcher.pc = "done" =>
    /\ \/ DOMAIN fetcher.result = {"success", "data"} /\ fetcher.result.success
       \/ DOMAIN fetcher.result = {"success", "error"} /\ ~fetcher.result.success
    /\ fetcher.elapsedAt \in {"fetching", "reading"} =>
         fetcher.result = Failure("Request timed out")
    /\ fetcher.timer # "armed"

\* The request is one the handler hands to scrapeWithPuppeteer
ScrapeEligible(body) ==
  /\ "url" \in DOMAIN body
  /\ body.url # ""
  /\ ParsesAsUrl(body.url)
  /\ ~HasMarkerOf(Hostname(body.url), {"greenhouse.io", "lever.co"})

\* C19: the handler sends at most one response and eventually sends one;
\* scrapeWithPuppeteer is called, and a browser launched, only for a body
\* whose url parses with a hostname containing neither 'greenhouse.io' nor
\* 'lever.co'; a request without url is answered 400 with no fetch and no
\* scrape; a scrape result with success: false is sent as it is with
\* status 500.
C19_OneResponsePerRequest ==
  /\ [](Len(handler.responses) <= 1)
  /\ [](handler.pc = "responded" <=> Len(handler.responses) = 1)
  /\ []((pc # "idle" \/ handler.scrapeCalls > 0 \/ browser # "none")
          => (ScrapeEligible(handler.body) /\ handler.scrapeCalls = 1))
  /\ [](~("url" \in DOMAIN handler.body /\ handler.body.url # "") =>
          /\ fetcher.pc = "idle" /\ handler.fetchCalls = 0
          /\ pc = "idle" /\ handler.scrapeCalls = 0
          /\ handler.pc = "responded" => handler.responses[1].status = 400)
  /\ []((handler.pc = "responded" /\ outcome = "returned" /\ ~result.success) =>
          handler.responses[1] = [status |-> 500, body |-> result])
  /\ <>(handler.pc = "responded")

C19_Witness ==
  /\ handler.pc = "responded"
  /\ handler.body = [url |-> "https://jobs.example.com/?from=greenhouse.io"]
  /\ outcome = "returned"
  /\ result = Failure(NoJobsError)
  /\ handler.responses = << [status |-> 500, body |-> Failure(NoJobsError)] >>

====
